---- MODULE Spec2Model ----
(***************************************************************************)
(* Elements of a completion that are given as the limit of the            *)
(* coefficients, in one fixed degree, of the key polynomials of a Mac     *)
(* Lane limit valuation (src/mac_lane_element.py, class MacLaneElement).  *)
(*                                                                         *)
(* The base ring is modelled by a finite set of fractions n / P^Shift      *)
(* with the P-adic valuation; an element of the base ring is represented  *)
(* by its numerator n.  A polynomial is the sequence of its coefficients,  *)
(* lowest degree first, so phi()[d] is phi[d + 1].                         *)
(*                                                                         *)
(* The limit valuation is a collaborator of the element: the element only *)
(* reads its _approximation, its _initial_approximation and its parent.    *)
(* The model therefore admits every approximation [v_{n-1}, v_n(phi) = mu] *)
(* of a factor G that has the one property the source relies on (the       *)
(* inequality derived in the comment of _precision), including key         *)
(* polynomials with coefficients of negative valuation and the value       *)
(* mu = 0.  A refinement replaces the approximation by one of larger mu    *)
(* over the same base valuation; the key polynomials keep their degree.    *)
(*                                                                         *)
(* The variable last records the most recent call on an element: its       *)
(* operands, its result (a returned value or a raised exception) and the   *)
(* approximation the chain had reached when the call ran.                  *)
(***************************************************************************)
EXTENDS Integers, Sequences, FiniteSets, TLC

VARIABLES limit_valuation, G, last

vars == <<limit_valuation, G, last>>

------------------------------------------------------------------------------
(* Parameters of the model *)

\* the residue characteristic of the valuation on the base ring (the doctests
\* work over the 5-adic completion of QQ)
P == 5
\* base ring elements are n / P^Shift
Shift == 1
\* the values mu_n = v_n(phi_n) range over 0 .. MaxMu
MaxMu == 1
\* the values v_{n-1}(x) of a base valuation with key polynomial x range over
\* 0 .. MaxBase
MaxBase == 1
\* the degrees of the coefficients of the key polynomials, which are monic of
\* degree 2
Degrees == {0, 1}

------------------------------------------------------------------------------
(* The base ring and its valuation *)

RECURSIVE Pow(_, _)
Pow(b, e) == IF e = 0 THEN 1 ELSE b * Pow(b, e - 1)

Abs(n) == IF n < 0 THEN -n ELSE n

\* the numerator of 1
One == Pow(P, Shift)

\* the numerators of the base ring elements of the model
BaseRing == {0, 1, P, P * P}

\* the valuation of 0; larger than every finite valuation of the model
Infinity == MaxMu + MaxBase + Shift + P * P

RECURSIVE Ord(_)
\* the exponent of P in the nonzero integer n
Ord(n) == IF n % P = 0 THEN 1 + Ord(n \div P) ELSE 0

\* x.valuation() for the base ring element with numerator n (n may be a
\* difference of two numerators, hence negative)
BaseValuation(n) == IF n = 0 THEN Infinity ELSE Ord(Abs(n)) - Shift

\* x.reduction(): the image in the residue field of an element of
\* non-negative valuation; an element of negative valuation has none
BaseReduction(n) ==
    IF BaseValuation(n) < 0
    THEN [ok |-> FALSE, err |-> "ValueError", msg |-> "negative valuation"]
    ELSE [ok |-> TRUE, val |-> (n \div One) % P]

\* repr(x), as a sequence of tokens
BaseRepr(n) ==
    IF n % One = 0 THEN <<ToString(n \div One)>>
    ELSE <<ToString(n), "/", ToString(One)>>

------------------------------------------------------------------------------
(* Results of an operation: a returned value, or a raised exception *)

Return(v) == [ok |-> TRUE, val |-> v]

Raise(e, m) == [ok |-> FALSE, err |-> e, msg |-> m]

------------------------------------------------------------------------------
(* The approximation chain (an external collaborator of the element) *)

\* v_n.domain().gen(): the polynomial x
gen == <<0, One>>

\* the base valuations v_{n-1} of the model, each with its key polynomial
\* phi_{n-1} and value = v_{n-1}(phi_{n-1}): key polynomial x, or x + 1
BaseValuations ==
    {[phi |-> gen, value |-> m] : m \in 0 .. MaxBase}
        \cup {[phi |-> <<One, One>>, value |-> 0]}

\* the monic polynomials of degree 2 over the base ring
Polys == {<<a, b, One>> : a, b \in BaseRing}

\* the approximations v_n = [v_{n-1}, v_n(phi) = _mu]
Approximations == [phi : Polys, _mu : 0 .. MaxMu, _base_valuation : BaseValuations]

\* f[i], the coefficient of degree i of the polynomial f
Coefficient(f, i) == f[i + 1]

\* the factor g with coefficients a_i is a key polynomial for the approximation
\* v_n with v_n(g) = mu_n, so that v_{n-1}(a_i - b_i) >= mu_n - i mu_{n-1}
\* for the coefficients b_i of phi_n
Approximates(v_n, g) ==
    \A i \in Degrees :
        BaseValuation(Coefficient(g, i) - Coefficient(v_n.phi, i))
            + i * v_n._base_valuation.value >= v_n._mu

\* a == b for limit valuations: the same valuation on the same ring, whatever
\* approximation either object has reached
LimitValuationEq(a, b) == a.parent = b.parent /\ a.ident = b.ident

------------------------------------------------------------------------------
(* MacLaneElement *)

__init__(parent, lv, degree) ==
    [kind |-> "MacLaneElement", parent |-> parent,
     _limit_valuation |-> lv, _degree |-> degree]

\* an element of the base ring, with numerator n
BaseElement(parent, n) == [kind |-> "BaseElement", parent |-> parent, value |-> n]

_repr_(self) ==
    LET approximation ==
            BaseRepr(Coefficient(self._limit_valuation._initial_approximation.phi,
                                 self._degree))
        parenthesized ==
            IF \E k \in 1 .. Len(approximation) : approximation[k] = " "
            THEN <<"(">> \o approximation \o <<")">>
            ELSE approximation
    IN  Return(parenthesized \o <<" ", "+", " ", "O(?)">>)

\* _precision with the term of the degree dropped
_precision_without_degree(self) ==
    LET v_n == self._limit_valuation._approximation
    IN  IF v_n._base_valuation.phi = gen
        THEN Return(v_n._mu)
        ELSE Raise("NotImplementedError", "")

\* _precision with the term of the degree added instead of subtracted
_precision_plus(self) ==
    LET v_n == self._limit_valuation._approximation
    IN  IF v_n._base_valuation.phi = gen
        THEN Return(v_n._mu + self._degree * v_n._base_valuation.value)
        ELSE Raise("NotImplementedError", "")

_precision(self) ==
    LET v_n == self._limit_valuation._approximation
    IN  IF v_n._base_valuation.phi = gen
        THEN Return(v_n._mu - self._degree * v_n._base_valuation.value)
        ELSE Raise("NotImplementedError", "")

\* valuation with a precision equal to the visible valuation accepted
valuation_ge(self) ==
    LET ret == BaseValuation(Coefficient(self._limit_valuation._approximation.phi,
                                         self._degree))
        precision == _precision(self)
    IN  IF ~precision.ok THEN precision
        ELSE IF precision.val >= ret THEN Return(ret)
        ELSE Raise("NotImplementedError", "")

\* valuation with the boundary precision 0 always refused
valuation_positive(self) ==
    LET ret == BaseValuation(Coefficient(self._limit_valuation._approximation.phi,
                                         self._degree))
        precision == _precision(self)
    IN  IF ~precision.ok THEN precision
        ELSE IF precision.val > ret /\ precision.val > 0 THEN Return(ret)
        ELSE Raise("NotImplementedError", "")

\* valuation reading the initial approximation of the chain
valuation_initial(self) ==
    LET ret == BaseValuation(Coefficient(self._limit_valuation._initial_approximation.phi,
                                         self._degree))
        precision == _precision(self)
    IN  IF ~precision.ok THEN precision
        ELSE IF precision.val > ret THEN Return(ret)
        ELSE Raise("NotImplementedError", "")

\* valuation returning the visible valuation when no precision is known
valuation_unguarded(self) ==
    LET ret == BaseValuation(Coefficient(self._limit_valuation._approximation.phi,
                                         self._degree))
        precision == _precision(self)
    IN  IF ~precision.ok THEN Return(ret)
        ELSE IF precision.val > ret THEN Return(ret)
        ELSE Raise("NotImplementedError", "")

valuation(self) ==
    LET ret == BaseValuation(Coefficient(self._limit_valuation._approximation.phi,
                                         self._degree))
        precision == _precision(self)
    IN  IF ~precision.ok THEN precision
        ELSE IF precision.val > ret THEN Return(ret)
        ELSE Raise("NotImplementedError", "")

\* reduction with the precision 0 accepted
reduction_ge(self) ==
    LET precision == _precision(self)
    IN  IF ~precision.ok THEN precision
        ELSE IF precision.val >= 0
        THEN BaseReduction(Coefficient(self._limit_valuation._approximation.phi,
                                       self._degree))
        ELSE Raise("NotImplementedError", "")

reduction(self) ==
    LET precision == _precision(self)
    IN  IF ~precision.ok THEN precision
        ELSE IF precision.val > 0
        THEN BaseReduction(Coefficient(self._limit_valuation._approximation.phi,
                                       self._degree))
        ELSE Raise("NotImplementedError", "")

\* equality answering true to a base element it cannot tell apart
Equality_undecided_true(self, other) ==
    IF other.kind = "BaseElement"
    THEN LET d == BaseValuation(other.value
                      - Coefficient(self._limit_valuation._approximation.phi,
                                    self._degree))
             precision == _precision(self)
         IN  IF ~precision.ok THEN precision
             ELSE IF d < precision.val THEN Return(FALSE)
             ELSE Return(TRUE)
    ELSE IF other.kind = "MacLaneElement"
    THEN IF self._limit_valuation.parent = other._limit_valuation.parent
         THEN Return(LimitValuationEq(self._limit_valuation, other._limit_valuation)
                     /\ self._degree = other._degree)
         ELSE Raise("NotImplementedError",
                    "comparison of Mac Lane elements that come from valuations on different rings")
    ELSE Raise("NotImplementedError", "")

\* equality of Mac Lane elements with the degrees not compared
Equality_without_degree(self, other) ==
    IF other.kind = "BaseElement"
    THEN LET d == BaseValuation(other.value
                      - Coefficient(self._limit_valuation._approximation.phi,
                                    self._degree))
             precision == _precision(self)
         IN  IF ~precision.ok THEN precision
             ELSE IF d < precision.val THEN Return(FALSE)
             ELSE Raise("NotImplementedError", "comparison to base elements")
    ELSE IF other.kind = "MacLaneElement"
    THEN IF self._limit_valuation.parent = other._limit_valuation.parent
         THEN Return(LimitValuationEq(self._limit_valuation, other._limit_valuation))
         ELSE Raise("NotImplementedError",
                    "comparison of Mac Lane elements that come from valuations on different rings")
    ELSE Raise("NotImplementedError", "")

\* self == other (op = 2)
Equality(self, other) ==
    IF other.kind = "BaseElement"
    THEN LET d == BaseValuation(other.value
                      - Coefficient(self._limit_valuation._approximation.phi,
                                    self._degree))
             precision == _precision(self)
         IN  IF ~precision.ok THEN precision
             ELSE IF d < precision.val THEN Return(FALSE)
             ELSE Raise("NotImplementedError", "comparison to base elements")
    ELSE IF other.kind = "MacLaneElement"
    THEN IF self._limit_valuation.parent = other._limit_valuation.parent
         THEN Return(LimitValuationEq(self._limit_valuation, other._limit_valuation)
                     /\ self._degree = other._degree)
         ELSE Raise("NotImplementedError",
                    "comparison of Mac Lane elements that come from valuations on different rings")
    ELSE Raise("NotImplementedError", "")

\* the rich comparison with the negation of != forgotten
_richcmp_without_not(self, other, op) ==
    IF op = 2 THEN Equality(self, other)
    ELSE IF op = 3 THEN Equality(self, other)
    ELSE Raise("NotImplementedError", "")

_richcmp_(self, other, op) ==
    IF op = 2 THEN Equality(self, other)
    ELSE IF op = 3
    THEN LET eq == Equality(self, other)
         IN  IF eq.ok THEN Return(~eq.val) ELSE eq
    ELSE Raise("NotImplementedError", "")

------------------------------------------------------------------------------
(* The state machine: calls on the elements of one chain, and refinements
   of the chain by its owner *)

NoOther == [kind |-> "none"]

\* the element of the completion "C" at degree d of the chain
Self(d) == __init__("C", limit_valuation, d)

\* the limit valuations of the right-hand operands: the chain itself, an equal
\* valuation derived again (still at its initial approximation), another
\* valuation on the same ring, a valuation on another ring
OtherLimitValuations ==
    {limit_valuation,
     [limit_valuation EXCEPT !._approximation = limit_valuation._initial_approximation],
     [limit_valuation EXCEPT !.ident = "w"],
     [limit_valuation EXCEPT !.parent = "S[x]"]}

\* the right-hand operands of a comparison
Others ==
    {BaseElement("C", n) : n \in BaseRing}
        \cup {__init__("C", lv, d) : lv \in OtherLimitValuations, d \in Degrees}
        \cup {[kind |-> "Other", parent |-> "C"]}

\* the operators of a rich comparison: < (0), == (2), != (3); the result of <
\* does not depend on the right-hand operand
Operators(other) == IF other = BaseElement("C", 0) THEN {0, 2, 3} ELSE {2, 3}

\* the record of a call: its operands, its result, and the approximation the
\* chain had reached when it ran
Called(name, d, other, op, result) ==
    [name |-> name, degree |-> d, other |-> other, op |-> op, result |-> result,
     approximation |-> limit_valuation._approximation]

Init ==
    /\ \E v \in Approximations :
          /\ limit_valuation = [parent |-> "R[x]", ident |-> "v",
                                _initial_approximation |-> v, _approximation |-> v]
          /\ G \in {g \in Polys : Approximates(v, g)}
    /\ last = Called("none", 0, NoOther, 2, Return(0))

CallPrecision(d) ==
    /\ last' = Called("_precision", d, NoOther, 2, _precision(Self(d)))
    /\ UNCHANGED <<limit_valuation, G>>

CallValuation(d) ==
    /\ last' = Called("valuation", d, NoOther, 2, valuation(Self(d)))
    /\ UNCHANGED <<limit_valuation, G>>

CallReduction(d) ==
    /\ last' = Called("reduction", d, NoOther, 2, reduction(Self(d)))
    /\ UNCHANGED <<limit_valuation, G>>

CallRichcmp(d, other, op) ==
    /\ last' = Called("_richcmp_", d, other, op, _richcmp_(Self(d), other, op))
    /\ UNCHANGED <<limit_valuation, G>>

CallRepr(d) ==
    /\ last' = Called("_repr_", d, NoOther, 2, _repr_(Self(d)))
    /\ UNCHANGED <<limit_valuation, G>>

\* the owner of the chain replaces its approximation by a strictly better one
\* over the same base valuation
Refine ==
    /\ \E v \in Approximations :
          /\ v._mu > limit_valuation._approximation._mu
          /\ v._base_valuation = limit_valuation._approximation._base_valuation
          /\ Approximates(v, G)
          /\ limit_valuation' = [limit_valuation EXCEPT !._approximation = v]
    /\ UNCHANGED <<G, last>>

Next ==
    \/ \E d \in Degrees : CallPrecision(d)
    \/ \E d \in Degrees : CallValuation(d)
    \/ \E d \in Degrees : CallReduction(d)
    \/ \E d \in Degrees, other \in Others : \E op \in Operators(other) : CallRichcmp(d, other, op)
    \/ \E d \in Degrees : CallRepr(d)
    \/ Refine

Spec == Init /\ [][Next]_vars

------------------------------------------------------------------------------
(* Properties *)

\* the left-hand element of the last call, as it was when the call ran
Callee ==
    __init__("C", [limit_valuation EXCEPT !._approximation = last.approximation],
             last.degree)

\* the coefficient the chain showed to the last call
Visible == Coefficient(last.approximation.phi, last.degree)

\* the chain has not been refined since the last call
Fresh == last.approximation = limit_valuation._approximation

\* the chain has been refined since it was set up, and the coefficient of
\* degree d of its key polynomial has changed
Moved(d) ==
    Coefficient(limit_valuation._approximation.phi, d)
        # Coefficient(limit_valuation._initial_approximation.phi, d)

\* the element of degree d of the chain with every approximation before the
\* current one replaced by the current one
Forgetful(d) ==
    __init__("C", [limit_valuation EXCEPT
                       !._initial_approximation = limit_valuation._approximation], d)

\* the element of degree d of the chain put back to its initial approximation
Initial(d) ==
    __init__("C", [limit_valuation EXCEPT
                       !._approximation = limit_valuation._initial_approximation], d)

IsEquals == last.name = "_richcmp_" /\ last.op = 2

\* C1: Valuation returns r, the valuation of the visible coefficient, exactly
\* when the precision bound is strictly greater than r, and fails in every
\* other chain state.
C1_ValuationIffProtected ==
    last.name = "valuation" =>
        LET r == BaseValuation(Visible)
            p == _precision(Callee)
        IN  IF p.ok /\ p.val > r
            THEN last.result = Return(r)
            ELSE ~last.result.ok

C1_Witness ==
    /\ last.name = "valuation"
    /\ last.result.ok
    /\ last.result.val = BaseValuation(Visible)
    /\ _precision(Callee).val > last.result.val

\* C2: Equals against a base element, with d the valuation of the difference
\* to the visible coefficient, returns false when d is below the precision
\* bound, fails when it is not, and never returns true.
C2_EqualsExact ==
    (IsEquals /\ last.other.kind = "BaseElement") =>
        LET d == BaseValuation(last.other.value - Visible)
            p == _precision(Callee)
        IN  /\ last.result # Return(TRUE)
            /\ p.ok => IF d < p.val THEN last.result = Return(FALSE)
                       ELSE ~last.result.ok

C2_Witness ==
    /\ IsEquals /\ last.other.kind = "BaseElement"
    /\ last.other.value # Visible
    /\ _precision(Callee).ok
    /\ BaseValuation(last.other.value - Visible) >= _precision(Callee).val
    /\ ~last.result.ok

\* C3: Equals between two Mac Lane elements over the same ring returns true if
\* the limit valuations are equal and the degrees match and false if not;
\* over different rings it fails.
C3_EqualsLimit ==
    (IsEquals /\ last.other.kind = "MacLaneElement") =>
        IF last.other._limit_valuation.parent = limit_valuation.parent
        THEN last.result =
                 Return(/\ last.other._limit_valuation.ident = limit_valuation.ident
                        /\ last.other._degree = last.degree)
        ELSE ~last.result.ok

C3_Witness ==
    /\ IsEquals /\ last.other.kind = "MacLaneElement"
    /\ last.other._limit_valuation # limit_valuation
    /\ last.result = Return(TRUE)

\* C4: Reduction returns the reduction of the visible coefficient when the
\* precision bound is strictly positive, and fails when the bound is zero or
\* negative.
C4_ReductionIffPositive ==
    last.name = "reduction" =>
        LET p == _precision(Callee)
        IN  /\ (p.ok /\ p.val > 0) => last.result = BaseReduction(Visible)
            /\ (p.ok /\ p.val <= 0) => ~last.result.ok

C4_Witness ==
    /\ last.name = "reduction"
    /\ _precision(Callee).ok /\ _precision(Callee).val > 0
    /\ last.result.ok
    /\ last.result.val = 1

\* C5: Precision returns mu_n - degree * v_{n-1}(phi_{n-1}) when phi_{n-1} is
\* the generator of the polynomial ring and fails when it is not.
C5_PrecisionFormula ==
    last.name = "_precision" =>
        LET v_n == last.approximation
        IN  IF v_n._base_valuation.phi = <<0, One>>
            THEN last.result = Return(v_n._mu - last.degree * v_n._base_valuation.value)
            ELSE /\ ~last.result.ok
                 /\ last.result.err = "NotImplementedError"

C5_Witness ==
    /\ last.name = "_precision"
    /\ last.degree = 1
    /\ last.approximation._base_valuation.value = 1
    /\ last.result = Return(last.approximation._mu - 1)

\* C6 as stated: when the precision bound is exactly 0, Valuation fails
\* whatever the valuation of the visible coefficient is.
C6_Original ==
    (last.name = "valuation" /\ _precision(Callee) = Return(0)) => ~last.result.ok

\* C6, amended: when the precision bound is exactly 0, Valuation fails if the
\* valuation of the visible coefficient is 0 or more, and returns that
\* valuation if it is negative.
C6_ValuationAtBoundary ==
    (last.name = "valuation" /\ _precision(Callee) = Return(0)) =>
        IF BaseValuation(Visible) >= 0
        THEN ~last.result.ok
        ELSE last.result = Return(BaseValuation(Visible))

C6_Witness ==
    /\ last.name = "valuation"
    /\ _precision(Callee) = Return(0)
    /\ BaseValuation(Visible) = 0
    /\ ~last.result.ok

\* the result of the last call, made again on the element e
Again(e) ==
    IF last.name = "_precision" THEN _precision(e)
    ELSE IF last.name = "valuation" THEN valuation(e)
    ELSE IF last.name = "reduction" THEN reduction(e)
    ELSE IF last.name = "_repr_" THEN _repr_(e)
    ELSE _richcmp_(e, last.other, last.op)

ReadsChain == last.name \in {"_precision", "valuation", "reduction", "_repr_"}
                 \/ (IsEquals /\ last.other.kind = "BaseElement")

\* C7 as stated: every operation, Display included, computes its result from
\* the current approximation of the chain and from no earlier one.
C7_Original ==
    (Fresh /\ ReadsChain) => last.result = Again(Forgetful(last.degree))

\* C7, amended: Precision, Valuation, Reduction and Equals against a base
\* element compute their result from the current approximation of the chain
\* and from no earlier one; Display renders the coefficient of the initial
\* approximation of the chain, whatever approximation the chain has reached.
C7_ObservesCurrent ==
    (Fresh /\ ReadsChain) =>
        IF last.name = "_repr_"
        THEN last.result = Again(Initial(last.degree))
        ELSE last.result = Again(Forgetful(last.degree))

C7_Witness ==
    /\ Fresh /\ last.name = "valuation"
    /\ Moved(last.degree)
    /\ last.result.ok
    /\ last.result.val
           # BaseValuation(Coefficient(limit_valuation._initial_approximation.phi,
                                       last.degree))

C9_NotEquals ==
    (last.name = "_richcmp_" /\ last.op = 3) =>
        LET eq == _richcmp_(Callee, last.other, 2)
        IN  IF eq.ok
            THEN last.result.ok /\ last.result.val = ~eq.val
            ELSE ~last.result.ok

C9_Witness ==
    /\ last.name = "_richcmp_" /\ last.op = 3
    /\ last.other.kind = "BaseElement"
    /\ last.result = Return(TRUE)

\* C10: where Precision fails, Valuation, Reduction and Equals against a base
\* element fail as well.
C10_NoBoundNoAnswer ==
    (/\ last.name \in {"valuation", "reduction"}
           \/ (IsEquals /\ last.other.kind = "BaseElement")
     /\ ~_precision(Callee).ok)
        => ~last.result.ok

C10_Witness ==
    /\ last.name = "valuation"
    /\ ~_precision(Callee).ok
    /\ BaseValuation(Visible) < 0
    /\ ~last.result.ok

====
